---- MODULE Spec2Model ----
(***************************************************************************)
(* TraeMcpMonitor (src/src/index.ts): a relay that validates tool calls    *)
(* with Zod, wraps them in envelopes and writes them to one backend        *)
(* WebSocket, which it reconnects with a linear, capped backoff.           *)
(*                                                                         *)
(* JavaScript runs every handler to completion on one event loop, and no   *)
(* handler of the class awaits anything before its last statement, so each *)
(* handler is one atomic action.                                           *)
(***************************************************************************)
EXTENDS Integers, Sequences, FiniteSets, TLC

VARIABLES
    monitorWs,          \* this.monitorWs: 0 is null, else an index into sockets
    sockets,            \* the WebSocket objects still reachable or still able to emit events
    reconnectAttempts,  \* this.reconnectAttempts
    isShuttingDown,     \* this.isShuttingDown
    timers,             \* the delays of the pending setTimeout(() => connectToMonitor()) timers
    now,                \* Date.now(), in clock ticks
    running,            \* FALSE once process.exit has been called
    urlAccepted,        \* whether new WebSocket(config.monitorUrl) constructs (TRUE) or throws
    call,               \* the tool call handled by the step just taken, with its reply; NoCall otherwise
    scheduledDelays,    \* history: the delays passed to setTimeout since the start or the last open event
    failures,           \* history: the failed attempts (close events, constructor throws) since then
    inbound,            \* the inbound frame handled by the step just taken, with what was logged; NoInbound otherwise
    inFlight,           \* the POST /mcp requests received and not yet answered to their clients
    retried,            \* history: TRUE once a reconnect timer has created a socket
    created             \* history: the sockets constructed in the current run of attempts, which
                        \* starts at the start or with the socket that last opened

vars == <<monitorWs, sockets, reconnectAttempts, isShuttingDown, timers, now,
          running, urlAccepted, call, scheduledDelays, failures, inbound, inFlight, retried,
                   created>>

(***************************************************************************)
(* Bounds of the model.                                                    *)
(***************************************************************************)
MaxClock == 1       \* the clock ticks at most this many times
MaxFrames == 1      \* tool calls are issued while the current socket carries fewer tool frames
MaxInFlight == 2    \* the requests of a burst: received before the first of them is answered to its client

(***************************************************************************)
(* Program constants.                                                      *)
(***************************************************************************)
maxReconnectAttempts == 10
reconnectDelay == 5000
MaxDelay == 30000

(***************************************************************************)
(* JavaScript values.  A string is [t |-> "string", v |-> s]; the strings  *)
(* the program builds from the clock keep the clock value they were built  *)
(* from.                                                                   *)
(***************************************************************************)
Undefined == [t |-> "undefined"]
Str(s) == [t |-> "string", v |-> s]
Num(n) == [t |-> "number", n |-> n]
Obj(f) == [t |-> "object", o |-> f]
EmptyObj == Obj([k \in {} |-> Undefined])

\* new Date().toISOString()
toISOString(ms) == [t |-> "string", iso |-> ms]
\* `auth-${Date.now()}`
AuthId(ms) == [t |-> "string", auth |-> ms]

\* obj[key]
Get(obj, key) == IF obj.t = "object" /\ key \in DOMAIN obj.o THEN obj.o[key] ELSE Undefined

\* if (value) ...
Truthy(x) ==
    CASE x.t = "undefined" -> FALSE
      [] x.t = "null" -> FALSE
      [] x.t = "string" -> ("v" \in DOMAIN x) => x.v # ""
      [] x.t = "number" -> x.n # 0
      [] OTHER -> TRUE

\* { ...a, ...b }: the keys of b win
Spread(a, b) == [k \in DOMAIN a \cup DOMAIN b |-> IF k \in DOMAIN b THEN b[k] ELSE a[k]]

\* the own enumerable properties that { ...x } copies
Props(x) == IF x.t = "object" THEN x.o ELSE [k \in {} |-> Undefined]

(***************************************************************************)
(* The characters of the strings whose shape the validator inspects.       *)
(***************************************************************************)
Chars(s) ==
    CASE s = "2025-01-01T00:00:00Z" ->
            <<"2","0","2","5","-","0","1","-","0","1","T","0","0",":","0","0",":","0","0","Z">>
      [] s = "2025-01-01T00:00:00.5Z" ->
            <<"2","0","2","5","-","0","1","-","0","1","T","0","0",":","0","0",":","0","0",".","5","Z">>
      [] s = "2025-01-01T00:00:00+02:00" ->
            <<"2","0","2","5","-","0","1","-","0","1","T","0","0",":","0","0",":","0","0","+","0","2",":","0","0">>
      [] s = "2025-01-01T00:00Z" ->
            <<"2","0","2","5","-","0","1","-","0","1","T","0","0",":","0","0","Z">>
      [] s = "2025-13-01T00:00:00Z" ->
            <<"2","0","2","5","-","1","3","-","0","1","T","0","0",":","0","0",":","0","0","Z">>
      [] s = "2025-02-29T00:00:00Z" ->
            <<"2","0","2","5","-","0","2","-","2","9","T","0","0",":","0","0",":","0","0","Z">>
      [] s = "2024-02-29T00:00:00Z" ->
            <<"2","0","2","4","-","0","2","-","2","9","T","0","0",":","0","0",":","0","0","Z">>
      [] s = "2025-01-01T24:00:00Z" ->
            <<"2","0","2","5","-","0","1","-","0","1","T","2","4",":","0","0",":","0","0","Z">>
      [] s = "2025-01-01" ->
            <<"2","0","2","5","-","0","1","-","0","1">>
      [] s = "tomorrow" -> <<"t","o","m","o","r","r","o","w">>
      [] s = "" -> <<>>
      [] OTHER -> <<"?">>

Digits == {"0","1","2","3","4","5","6","7","8","9"}

\* The value of a digit, and of the two digits at places i and i + 1.
DigitValue(c) ==
    CASE c = "0" -> 0 [] c = "1" -> 1 [] c = "2" -> 2 [] c = "3" -> 3 [] c = "4" -> 4
      [] c = "5" -> 5 [] c = "6" -> 6 [] c = "7" -> 7 [] c = "8" -> 8 [] c = "9" -> 9
TwoDigits(cs, i) == 10 * DigitValue(cs[i]) + DigitValue(cs[i + 1])

\* The days of a month of the Gregorian calendar.
DaysIn(year, month) ==
    CASE month \in {4, 6, 9, 11} -> 30
      [] month = 2 -> IF year % 4 = 0 /\ (year % 100 # 0 \/ year % 400 = 0) THEN 29 ELSE 28
      [] OTHER -> 31

\* The test behind z.string().datetime(), as the zod that package.json's ^3.22.4 resolves
\* to (3.25) makes it: a date of the calendar, T, HH:MM with HH <= 23 and MM <= 59, the
\* seconds (SS <= 59, with an optional fraction) optional, and Z.
datetimeRegex(cs) ==
    /\ Len(cs) >= 17
    /\ \A i \in {1,2,3,4,6,7,9,10,12,13,15,16} : cs[i] \in Digits
    /\ cs[5] = "-" /\ cs[8] = "-" /\ cs[11] = "T" /\ cs[14] = ":"
    /\ LET year == 100 * TwoDigits(cs, 1) + TwoDigits(cs, 3)
           month == TwoDigits(cs, 6)
           day == TwoDigits(cs, 9)
       IN  /\ month \in 1..12
           /\ day \in 1..DaysIn(year, month)
    /\ TwoDigits(cs, 12) <= 23
    /\ TwoDigits(cs, 15) <= 59
    /\ \/ Len(cs) = 17 /\ cs[17] = "Z"
       \/ /\ Len(cs) >= 20
          /\ cs[17] = ":"
          /\ cs[18] \in Digits /\ cs[19] \in Digits
          /\ TwoDigits(cs, 18) <= 59
          /\ \/ Len(cs) = 20 /\ cs[20] = "Z"
             \/ /\ Len(cs) >= 22
                /\ cs[20] = "."
                /\ \A i \in 21..(Len(cs) - 1) : cs[i] \in Digits
                /\ cs[Len(cs)] = "Z"

(***************************************************************************)
(* Zod.  A check yields the issues it raises, <<>> when the value passes.  *)
(***************************************************************************)
Issue(path, code, message) == [path |-> path, code |-> code, message |-> message]

\* the default message of an invalid_type issue
ExpectedString(x) ==
    CASE x.t = "number" -> "Expected string, received number"
      [] x.t = "object" -> "Expected string, received object"
      [] OTHER -> "Expected string, received null"
ExpectedObject(x) ==
    CASE x.t = "number" -> "Expected object, received number"
      [] x.t = "string" -> "Expected object, received string"
      [] OTHER -> "Expected object, received null"

\* z.string(): the minimum length is not checked
zStringMin1NoMin(x, path, message) ==
    CASE x.t = "undefined" -> <<Issue(path, "invalid_type", "Required")>>
      [] x.t # "string" -> <<Issue(path, "invalid_type", ExpectedString(x))>>
      [] OTHER -> <<>>

\* z.string().min(1, message)
zStringMin1(x, path, message) ==
    CASE x.t = "undefined" -> <<Issue(path, "invalid_type", "Required")>>
      [] x.t # "string" -> <<Issue(path, "invalid_type", ExpectedString(x))>>
      [] x.v = "" -> <<Issue(path, "too_small", message)>>
      [] OTHER -> <<>>

\* z.string().optional()
zStringOptional(x, path) ==
    CASE x.t = "undefined" -> <<>>
      [] x.t # "string" -> <<Issue(path, "invalid_type", ExpectedString(x))>>
      [] OTHER -> <<>>

\* z.enum([...], { errorMap: () => ({ message }) })
zEnum(x, values, path, message) ==
    CASE x.t # "string" -> <<Issue(path, "invalid_type", message)>>
      [] x.v \notin values -> <<Issue(path, "invalid_enum_value", message)>>
      [] OTHER -> <<>>

\* z.string().datetime(message)
zDatetime(x, path, message) ==
    CASE x.t = "undefined" -> <<Issue(path, "invalid_type", "Required")>>
      [] x.t # "string" -> <<Issue(path, "invalid_type", ExpectedString(x))>>
      [] ~datetimeRegex(Chars(x.v)) -> <<Issue(path, "invalid_string", message)>>
      [] OTHER -> <<>>

\* z.record(z.any()).optional()
zRecordOptional(x, path) ==
    CASE x.t = "undefined" -> <<>>
      [] x.t # "object" -> <<Issue(path, "invalid_type", ExpectedObject(x))>>
      [] OTHER -> <<>>

\* z.object(shape).parse(args), given the issues of the fields: unknown keys are stripped
zObject(args, keys, fieldIssues) ==
    CASE args.t = "undefined" ->
            [ok |-> FALSE, issues |-> <<Issue("", "invalid_type", "Required")>>, data |-> Undefined]
      [] args.t # "object" ->
            [ok |-> FALSE, issues |-> <<Issue("", "invalid_type", ExpectedObject(args))>>, data |-> Undefined]
      [] fieldIssues # <<>> ->
            [ok |-> FALSE, issues |-> fieldIssues, data |-> Undefined]
      [] OTHER ->
            [ok |-> TRUE, issues |-> <<>>,
             data |-> Obj([k \in DOMAIN args.o \cap keys |-> args.o[k]])]

TaskEventTypes == {"task_completed", "task_started", "task_failed"}

TaskEventSchema(args) ==
    zObject(args, {"taskId", "type", "description", "userId", "metadata"},
        zStringMin1(Get(args, "taskId"), "taskId", "Task ID es requerido")
        \o zEnum(Get(args, "type"), TaskEventTypes, "type",
                 "Tipo de evento debe ser: task_completed, task_started, o task_failed")
        \o zStringMin1(Get(args, "description"), "description", "Descripcion es requerida")
        \o zStringOptional(Get(args, "userId"), "userId")
        \o zRecordOptional(Get(args, "metadata"), "metadata"))

AuthorizationRequestSchema(args) ==
    zObject(args, {"taskId", "action", "description", "userId", "requiredBy", "metadata"},
        zStringMin1(Get(args, "taskId"), "taskId", "Task ID es requerido")
        \o zStringMin1(Get(args, "action"), "action", "Accion es requerida")
        \o zStringMin1(Get(args, "description"), "description", "Descripcion es requerida")
        \o zStringOptional(Get(args, "userId"), "userId")
        \o zDatetime(Get(args, "requiredBy"), "requiredBy",
                     "Fecha requerida debe ser ISO string valido")
        \o zRecordOptional(Get(args, "metadata"), "metadata"))


(***************************************************************************)
(* Configuration (ConfigSchema defaults).                                  *)
(***************************************************************************)
ConfigUserId == "687a8418096ca32b8c045cf8"
ConfigSourceName == "trae-mcp-monitor"
\* this.config.monitorUrl: the default, or a URL that passes z.string().url() and that
\* new WebSocket rejects
ConfigMonitorUrl == IF urlAccepted THEN "ws://localhost:2200" ELSE "ftp://localhost:2200"

(***************************************************************************)
(* The backend socket (the ws library's WebSocket).                        *)
(***************************************************************************)
NewSocket == [readyState |-> "CONNECTING", sent |-> <<>>, wasOpen |-> FALSE]

\* JSON.stringify(message): keys holding undefined are left out
JsonStringify(type, payload) ==
    [type |-> type,
     payload |-> [k \in {j \in DOMAIN payload : payload[j].t # "undefined"} |-> payload[k]]]

\* ws.send(data) with no callback: throws while CONNECTING, writes while OPEN,
\* and drops the data silently while CLOSING or CLOSED
WsSendThrows(socks, id) == socks[id].readyState = "CONNECTING"
WsSend(socks, id, data) ==
    IF socks[id].readyState = "OPEN"
    THEN [socks EXCEPT ![id].sent = Append(@, data)]
    ELSE socks

\* ws.close(): an open or connecting socket starts closing
WsClose(socks, id) ==
    IF socks[id].readyState \in {"CONNECTING", "OPEN"}
    THEN [socks EXCEPT ![id].readyState = "CLOSING"]
    ELSE socks

(***************************************************************************)
(* isWebSocketConnected                                                    *)
(***************************************************************************)
isWebSocketConnectedNoReadyState == monitorWs # 0

isWebSocketConnected == monitorWs # 0 /\ sockets[monitorWs].readyState = "OPEN"

(***************************************************************************)
(* Envelopes.                                                              *)
(***************************************************************************)
\* { source, timestamp, ...metadata }: the caller's keys win
MetadataCallerWins(v) ==
    Obj(Spread(("source" :> Str(ConfigSourceName)) @@ ("timestamp" :> toISOString(now)),
               Props(Get(v, "metadata"))))

\* { source, timestamp }: the caller's metadata is left out
MetadataInjectedOnly(v) ==
    Obj(("source" :> Str(ConfigSourceName)) @@ ("timestamp" :> toISOString(now)))

Metadata(v) ==
    Obj(Spread(Props(Get(v, "metadata")),
               ("source" :> Str(ConfigSourceName)) @@ ("timestamp" :> toISOString(now))))

userIdOrDefault(v) ==
    IF Truthy(Get(v, "userId")) THEN Get(v, "userId") ELSE Str(ConfigUserId)

TaskEventMessage(v) ==
    JsonStringify("task_event",
        ("taskId" :> Get(v, "taskId")) @@ ("type" :> Get(v, "type"))
        @@ ("description" :> Get(v, "description"))
        @@ ("userId" :> userIdOrDefault(v))
        @@ ("metadata" :> Metadata(v)))

\* an authorization request that carries no requestId
AuthorizationMessageNoRequestId(v) ==
    JsonStringify("authorization_request",
        ("taskId" :> Get(v, "taskId")) @@ ("action" :> Get(v, "action"))
        @@ ("description" :> Get(v, "description"))
        @@ ("userId" :> userIdOrDefault(v))
        @@ ("requiredBy" :> Get(v, "requiredBy"))
        @@ ("metadata" :> Metadata(v)))

AuthorizationMessage(v) ==
    JsonStringify("authorization_request",
        ("requestId" :> AuthId(now))
        @@ ("taskId" :> Get(v, "taskId")) @@ ("action" :> Get(v, "action"))
        @@ ("description" :> Get(v, "description"))
        @@ ("userId" :> userIdOrDefault(v))
        @@ ("requiredBy" :> Get(v, "requiredBy"))
        @@ ("metadata" :> Metadata(v)))

IdentifyMessage ==
    JsonStringify("mcp_client_identify",
        ("clientId" :> Str(ConfigSourceName)) @@ ("version" :> Str("1.0.0"))
        @@ ("capabilities" :> Obj(<<Str("task_events"), Str("authorization_requests")>>))
        @@ ("timestamp" :> toISOString(now)))

(***************************************************************************)
(* Errors and results of the tool methods.                                 *)
(***************************************************************************)
NoError == [name |-> "none", message |-> <<>>, issues |-> <<>>]
Error(message) == [name |-> "Error", message |-> message, issues |-> <<>>]
\* ZodError: its message is the JSON text of its issues
ZodError(issues) ==
    [name |-> "ZodError",
     message |-> [i \in 1..Len(issues) |-> issues[i].message],
     issues |-> issues]

NotConnectedMessage == <<"Monitor no conectado. Verificar conexion WebSocket.">>

Returned(content, socks) == [ok |-> TRUE, content |-> content, error |-> NoError, socks |-> socks]
Thrown(error) == [ok |-> FALSE, content |-> <<>>, error |-> error, socks |-> sockets]

(***************************************************************************)
(* sendTaskEvent, requestAuthorization                                     *)
(***************************************************************************)
\* a sendTaskEvent that tests the connection before it parses
sendTaskEventConnectionFirst(args) ==
    LET parsed == TaskEventSchema(args)
        v == parsed.data
    IN  IF ~isWebSocketConnected THEN Thrown(Error(NotConnectedMessage))
        ELSE IF ~parsed.ok THEN Thrown(ZodError(parsed.issues))
        ELSE Returned(<<"Evento de tarea enviado", Get(v, "type"), "para tarea", Get(v, "taskId")>>,
                      WsSend(sockets, monitorWs, TaskEventMessage(v)))

sendTaskEvent(args) ==
    LET parsed == TaskEventSchema(args)
        v == parsed.data
    IN  IF ~parsed.ok THEN Thrown(ZodError(parsed.issues))
        ELSE IF isWebSocketConnected
        THEN Returned(<<"Evento de tarea enviado", Get(v, "type"), "para tarea", Get(v, "taskId")>>,
                      WsSend(sockets, monitorWs, TaskEventMessage(v)))
        ELSE Thrown(Error(NotConnectedMessage))

requestAuthorization(args) ==
    LET parsed == AuthorizationRequestSchema(args)
        v == parsed.data
    IN  IF ~parsed.ok THEN Thrown(ZodError(parsed.issues))
        ELSE IF isWebSocketConnected
        THEN Returned(<<"Solicitud de autorizacion enviada", Get(v, "action"), "para tarea", Get(v, "taskId")>>,
                      WsSend(sockets, monitorWs, AuthorizationMessage(v)))
        ELSE Thrown(Error(NotConnectedMessage))


(***************************************************************************)
(* The connection manager.  Its methods map the fields of the object, m,   *)
(* to their values after the method.                                       *)
(***************************************************************************)
Fields ==
    [monitorWs |-> monitorWs, sockets |-> sockets, reconnectAttempts |-> reconnectAttempts,
     isShuttingDown |-> isShuttingDown, timers |-> timers]

Fresh ==
    [monitorWs |-> 0, sockets |-> <<>>, reconnectAttempts |-> 0,
     isShuttingDown |-> FALSE, timers |-> <<>>]

Min(a, b) == IF a <= b THEN a ELSE b

\* this.reconnectDelay * this.reconnectAttempts, with no cap
BackoffDelayUncapped(attempt) == reconnectDelay * attempt

\* Math.min(this.reconnectDelay * this.reconnectAttempts, 30000)
BackoffDelay(attempt) == Min(reconnectDelay * attempt, MaxDelay)

\* scheduleReconnect without the maxReconnectAttempts test
scheduleReconnectNoLimit(m) ==
    IF m.isShuttingDown THEN m
    ELSE [m EXCEPT !.reconnectAttempts = @ + 1,
                   !.timers = Append(@, Min(reconnectDelay * (m.reconnectAttempts + 1), MaxDelay))]

\* scheduleReconnect without the isShuttingDown test
scheduleReconnectWhileShuttingDown(m) ==
    LET attempts == m.reconnectAttempts + 1
    IN  IF attempts > maxReconnectAttempts
        THEN [m EXCEPT !.reconnectAttempts = attempts]
        ELSE [m EXCEPT !.reconnectAttempts = attempts,
                       !.timers = Append(@, BackoffDelay(attempts))]

scheduleReconnect(m) ==
    IF m.isShuttingDown THEN m
    ELSE LET attempts == m.reconnectAttempts + 1
         IN  IF attempts > maxReconnectAttempts
             THEN [m EXCEPT !.reconnectAttempts = attempts]
             ELSE [m EXCEPT !.reconnectAttempts = attempts,
                            !.timers = Append(@, BackoffDelay(attempts))]

\* connectToMonitor with a catch block that only logs
connectToMonitorCatchLogsOnly(m, constructs) ==
    IF m.isShuttingDown THEN m
    ELSE IF constructs
    THEN LET kept == SelectSeq(m.sockets, LAMBDA r : r.readyState # "CLOSED")
         IN  [m EXCEPT !.sockets = Append(kept, NewSocket),
                       !.monitorWs = Len(kept) + 1]
    ELSE m

\* new WebSocket(url) replaces the socket this.monitorWs held; a closed socket that
\* nothing refers to any longer is dropped from the model
connectToMonitor(m, constructs) ==
    IF m.isShuttingDown THEN m
    ELSE IF constructs
    THEN LET kept == SelectSeq(m.sockets, LAMBDA r : r.readyState # "CLOSED")
         IN  [m EXCEPT !.sockets = Append(kept, NewSocket),
                       !.monitorWs = Len(kept) + 1]
    ELSE scheduleReconnect(m)

\* an 'open' handler that sends no identification
onOpenNoIdentify(m) == [m EXCEPT !.reconnectAttempts = 0]

\* an 'open' handler that leaves the attempt counter as it is
onOpenNoReset(m) == [m EXCEPT !.sockets = WsSend(m.sockets, m.monitorWs, IdentifyMessage)]

\* an 'open' handler that also sends the task event whose call has just failed
onOpenRetry(m) ==
    LET identified == WsSend(m.sockets, m.monitorWs, IdentifyMessage)
        failed == call.via # "none" /\ call.error.name = "Error" /\ call.name = "send_task_event"
    IN  [m EXCEPT !.reconnectAttempts = 0,
                  !.sockets = IF failed
                              THEN WsSend(identified, m.monitorWs, TaskEventMessage(call.args))
                              ELSE identified]

\* the 'open' handler, run with the socket already OPEN
onOpen(m) ==
    [m EXCEPT !.reconnectAttempts = 0,
              !.sockets = WsSend(m.sockets, m.monitorWs, IdentifyMessage)]

\* a 'close' handler that only logs
onCloseLogsOnly(m) == m

\* a 'close' handler that schedules twice
onCloseTwice(m) == scheduleReconnect(scheduleReconnect(m))

\* the 'close' handler
onClose(m) == scheduleReconnect(m)

\* a shutdown that leaves the socket as it is
shutdownNoClose(m) == [m EXCEPT !.isShuttingDown = TRUE]

\* shutdown(signal), up to process.exit(0)
shutdown(m) ==
    [m EXCEPT !.isShuttingDown = TRUE,
              !.sockets = IF m.monitorWs # 0 THEN WsClose(m.sockets, m.monitorWs) ELSE @]

(***************************************************************************)
(* Replies.                                                                *)
(***************************************************************************)
NoCall == [via |-> "none"]
NoInbound == [level |-> "none"]

\* the CallToolRequestSchema handler: the tool's result, or the error rethrown
McpReply(r) ==
    IF r.ok THEN [kind |-> "result", content |-> r.content, error |-> NoError]
    ELSE [kind |-> "thrown", content |-> <<>>, error |-> r.error]

\* POST /mcp
HttpResult(id, content) ==
    [status |-> 200, id |-> id, kind |-> "result", content |-> content,
     code |-> 0, message |-> <<>>, data |-> <<>>]
HttpError(status, id, code, message, data) ==
    [status |-> status, id |-> id, kind |-> "error", content |-> <<>>,
     code |-> code, message |-> message, data |-> data]


Null == [t |-> "null"]

\* the tools that tools/list advertises on POST /mcp: name, properties, required, and the
\* values its enums allow
HttpToolsList ==
    << [name |-> "send_task_event",
        properties |-> {"event_type", "task_id", "message", "progress", "metadata"},
        required |-> {"event_type", "task_id", "message"},
        enum |-> "event_type" :> {"task_start", "task_progress", "task_complete", "task_error"}],
       [name |-> "request_authorization",
        properties |-> {"action", "resource", "reason", "timeout"},
        required |-> {"action", "resource", "reason"},
        enum |-> [k \in {} |-> {}]] >>

(***************************************************************************)
(* The inputs the callers send: a valid input of each tool and its         *)
(* variations, field by field.                                             *)
(***************************************************************************)
With(f, k, x) == (k :> x) @@ f
Without(f, k) == [j \in DOMAIN f \ {k} |-> f[j]]

TaskEventBase ==
    ("taskId" :> Str("t1")) @@ ("type" :> Str("task_started")) @@ ("description" :> Str("d"))

AuthorizationBase ==
    ("taskId" :> Str("t2")) @@ ("action" :> Str("deploy")) @@ ("description" :> Str("go"))
    @@ ("requiredBy" :> Str("2025-01-01T00:00:00Z"))

CallerMetadata ==
    Obj(("source" :> Str("caller")) @@ ("timestamp" :> Str("yesterday")) @@ ("k" :> Str("v")))

TaskEventInputs ==
    { Obj(TaskEventBase),
      Obj(With(TaskEventBase, "userId", Str("u1"))),
      Obj(With(TaskEventBase, "userId", Str(""))),
      Obj(With(With(TaskEventBase, "type", Str("task_failed")), "metadata", CallerMetadata)),
      Obj(Without(TaskEventBase, "taskId")),
      Obj(With(TaskEventBase, "taskId", Str(""))),
      Obj(With(TaskEventBase, "taskId", Num(7))),
      Obj(Without(TaskEventBase, "type")),
      Obj(With(TaskEventBase, "type", Str("task_start"))),
      Obj(Without(TaskEventBase, "description")),
      Obj(With(TaskEventBase, "description", Str(""))),
      Obj(("task_id" :> Str("t1")) @@ ("event_type" :> Str("task_start")) @@ ("message" :> Str("d"))),
      Undefined }

AuthorizationInputs ==
    { Obj(AuthorizationBase),
      Obj(With(With(AuthorizationBase, "userId", Str("u1")), "metadata", CallerMetadata)),
      Obj(With(AuthorizationBase, "userId", Str(""))),
      Obj(With(AuthorizationBase, "requiredBy", Str("2025-01-01T00:00:00.5Z"))),
      Obj(Without(AuthorizationBase, "taskId")),
      Obj(With(AuthorizationBase, "taskId", Str(""))),
      Obj(Without(AuthorizationBase, "action")),
      Obj(With(AuthorizationBase, "action", Str(""))),
      Obj(Without(AuthorizationBase, "description")),
      Obj(With(AuthorizationBase, "description", Str(""))),
      Obj(Without(AuthorizationBase, "requiredBy")),
      Obj(With(AuthorizationBase, "requiredBy", Str("tomorrow"))),
      Obj(With(AuthorizationBase, "requiredBy", Str("2025-13-01T00:00:00Z"))),
      Obj(With(AuthorizationBase, "requiredBy", Str("2025-01-01T00:00Z"))),
      Obj(("action" :> Str("deploy")) @@ ("resource" :> Str("prod")) @@ ("reason" :> Str("go"))) }

ToolNames == {"send_task_event", "request_authorization", "delete_everything", "send_task_events"}

InputsOf(name) ==
    CASE name = "send_task_event" -> TaskEventInputs
      [] name = "request_authorization" -> AuthorizationInputs
      [] OTHER -> {EmptyObj, Obj(TaskEventBase)}

RequestIds == {Num(1)}

\* the tool frames written on a socket
ToolFrames(sock) == SelectSeq(sock.sent, LAMBDA f : f.type # "mcp_client_identify")

\* a caller issues a call while the socket in use carries fewer than MaxFrames tool frames
MayCall ==
    /\ running
    /\ monitorWs # 0 => Len(ToolFrames(sockets[monitorWs])) < MaxFrames

(***************************************************************************)
(* Init: the state the constructor leaves.                                 *)
(***************************************************************************)
Init ==
    /\ urlAccepted \in BOOLEAN
    /\ LET m == connectToMonitor(Fresh, urlAccepted)
       IN  /\ monitorWs = m.monitorWs
           /\ sockets = m.sockets
           /\ reconnectAttempts = m.reconnectAttempts
           /\ isShuttingDown = m.isShuttingDown
           /\ timers = m.timers
           /\ scheduledDelays = m.timers
           /\ failures = IF urlAccepted THEN 0 ELSE 1
    /\ now = 0
    /\ running = TRUE
    /\ call = NoCall
    /\ inbound = NoInbound
    /\ inFlight = <<>>
    /\ retried = FALSE
    /\ created = IF urlAccepted THEN 1 ELSE 0

Assign(m) ==
    /\ monitorWs' = m.monitorWs
    /\ sockets' = m.sockets
    /\ reconnectAttempts' = m.reconnectAttempts
    /\ isShuttingDown' = m.isShuttingDown
    /\ timers' = m.timers

\* the delays m adds to the pending timers tm
Added(tm, m) == SubSeq(m.timers, Len(tm) + 1, Len(m.timers))

(***************************************************************************)
(* Actions.                                                                *)
(***************************************************************************)
\* The clock advances.
Tick ==
    /\ running
    /\ now < MaxClock
    /\ now' = now + 1
    /\ call' = NoCall
    /\ inbound' = NoInbound
    /\ UNCHANGED <<monitorWs, sockets, reconnectAttempts, isShuttingDown, timers,
                   running, urlAccepted, scheduledDelays, failures, inFlight, retried,
                   created>>

\* The backend accepts socket s: ws sets it OPEN and emits 'open'.
SocketOpen(s) ==
    /\ running
    /\ sockets[s].readyState = "CONNECTING"
    /\ LET opened == [sockets EXCEPT ![s].readyState = "OPEN", ![s].wasOpen = TRUE]
           m == [Fields EXCEPT !.sockets = opened]
       IN  IF WsSendThrows(opened, monitorWs)
           THEN /\ Assign([m EXCEPT !.reconnectAttempts = 0])
                /\ running' = FALSE
           ELSE /\ Assign(onOpen(m))
                /\ running' = running
    /\ scheduledDelays' = <<>>
    /\ failures' = 0
    /\ call' = NoCall
    /\ inbound' = NoInbound
    /\ created' = 1
    /\ UNCHANGED <<now, urlAccepted, inFlight, retried>>

\* an 'error' handler that schedules a reconnect as well
SocketErrorReconnects(s) ==
    /\ running
    /\ sockets[s].readyState \in {"CONNECTING", "OPEN"}
    /\ LET m == scheduleReconnect([Fields EXCEPT !.sockets[s].readyState = "CLOSING"])
       IN  /\ Assign(m)
           /\ scheduledDelays' = scheduledDelays \o Added(timers, m)
    /\ call' = NoCall
    /\ inbound' = NoInbound
    /\ UNCHANGED <<now, running, urlAccepted, failures, inFlight, retried,
                   created>>

\* Socket s fails: ws starts closing it and emits 'error'; the handler logs.
SocketError(s) ==
    /\ running
    /\ sockets[s].readyState \in {"CONNECTING", "OPEN"}
    /\ sockets' = [sockets EXCEPT ![s].readyState = "CLOSING"]
    /\ call' = NoCall
    /\ inbound' = NoInbound
    /\ UNCHANGED <<monitorWs, reconnectAttempts, isShuttingDown, timers, now,
                   running, urlAccepted, scheduledDelays, failures, inFlight, retried,
                   created>>

\* Socket s is closed (by the peer, or after an error): ws emits 'close'.
SocketClose(s) ==
    /\ running
    /\ sockets[s].readyState \in {"OPEN", "CLOSING"}
    /\ LET closed == [sockets EXCEPT ![s].readyState = "CLOSED"]
           m == onClose([Fields EXCEPT !.sockets = closed])
       IN  /\ Assign(m)
           /\ scheduledDelays' = scheduledDelays \o Added(timers, m)
    /\ failures' = failures + 1
    /\ call' = NoCall
    /\ inbound' = NoInbound
    /\ UNCHANGED <<now, running, urlAccepted, inFlight, retried,
                   created>>

\* The i-th pending timer fires: connectToMonitor().
TimerFire(i) ==
    /\ running
    /\ LET rest == [j \in 1..(Len(timers) - 1) |-> IF j < i THEN timers[j] ELSE timers[j + 1]]
           m == connectToMonitor([Fields EXCEPT !.timers = rest], urlAccepted)
       IN  /\ Assign(m)
           /\ scheduledDelays' = scheduledDelays \o Added(rest, m)
           /\ failures' = IF ~isShuttingDown /\ ~urlAccepted THEN failures + 1 ELSE failures
           /\ retried' = (retried \/ (~isShuttingDown /\ urlAccepted))
           /\ created' = IF ~isShuttingDown /\ urlAccepted THEN created + 1 ELSE created
    /\ call' = NoCall
    /\ inbound' = NoInbound
    /\ UNCHANGED <<now, running, urlAccepted, inFlight>>

\* SIGINT or SIGTERM: shutdown(signal), which ends the process.
Shutdown ==
    /\ running
    /\ Assign(shutdown(Fields))
    /\ running' = FALSE
    /\ call' = NoCall
    /\ inbound' = NoInbound
    /\ UNCHANGED <<now, urlAccepted, scheduledDelays, failures, inFlight, retried,
                   created>>

\* JSON.parse(data.toString()) of the frames the backend sends
JsonParse(text) ==
    CASE text = "{\"type\":\"ack\"}" -> [ok |-> TRUE, value |-> Obj("type" :> Str("ack"))]
      [] text = "5" -> [ok |-> TRUE, value |-> Num(5)]
      [] text = "null" -> [ok |-> TRUE, value |-> Null]
      [] OTHER -> [ok |-> FALSE, value |-> Undefined]

InboundFrames == {"{\"type\":\"ack\"}", "5", "null", "not json"}

Logged(data, level, text, type) ==
    [data |-> data, level |-> level, text |-> text, type |-> type, threw |-> FALSE]

\* a 'message' handler with no try/catch
onMessageNoCatch(data) ==
    LET parsed == JsonParse(data)
    IN  IF ~parsed.ok \/ parsed.value.t = "null"
        THEN [data |-> data, level |-> "none", text |-> "", type |-> Undefined, threw |-> TRUE]
        ELSE Logged(data, "debug", "Mensaje recibido del monitor", Get(parsed.value, "type"))

\* the 'message' handler: what it logs; reading message.type of null throws inside the try
onMessage(data) ==
    LET parsed == JsonParse(data)
    IN  IF ~parsed.ok \/ parsed.value.t = "null"
        THEN Logged(data, "error", "Error procesando mensaje del monitor", Undefined)
        ELSE Logged(data, "debug", "Mensaje recibido del monitor", Get(parsed.value, "type"))

\* The backend sends a frame on socket s: ws emits 'message'.  An exception leaving the
\* handler would end the process.
SocketMessage(s, data) ==
    /\ running
    /\ sockets[s].readyState = "OPEN"
    /\ inbound' = onMessage(data)
    /\ running' = ~inbound'.threw
    /\ call' = NoCall
    /\ UNCHANGED <<monitorWs, sockets, reconnectAttempts, isShuttingDown, timers, now,
                   urlAccepted, scheduledDelays, failures, inFlight, retried,
                   created>>

\* a report that takes a socket object for a connection
HealthReportNoReadyState ==
    [status |-> "ok", service |-> "trae-mcp-monitor", version |-> "1.0.0",
     transport |-> "streamable-http", timestamp |-> toISOString(now),
     websocket |-> IF monitorWs # 0 THEN "connected" ELSE "disconnected",
     monitor_url |-> ConfigMonitorUrl]

\* the body GET /health answers with
HealthReport ==
    [status |-> "ok", service |-> "trae-mcp-monitor", version |-> "1.0.0",
     transport |-> "streamable-http", timestamp |-> toISOString(now),
     websocket |-> IF isWebSocketConnected THEN "connected" ELSE "disconnected",
     monitor_url |-> ConfigMonitorUrl]

\* GET /health
GetHealth ==
    /\ running
    /\ call' = [via |-> "health", method |-> "GET /health", name |-> "", args |-> Undefined,
                reply |-> [kind |-> "report", body |-> HealthReport], error |-> NoError]
    /\ inbound' = NoInbound
    /\ UNCHANGED <<monitorWs, sockets, reconnectAttempts, isShuttingDown, timers, now,
                   running, urlAccepted, scheduledDelays, failures, inFlight, retried,
                   created>>

\* The tool method of each name.
Dispatch(name, args) ==
    IF name = "send_task_event" THEN sendTaskEvent(args) ELSE requestAuthorization(args)

\* a handler whose switch has no default case of its own: other names reach the last tool
CallToolHandlerFallThrough(name, args) ==
    LET r == Dispatch(name, args)
    IN  [socks |-> r.socks, error |-> r.error, reply |-> McpReply(r)]

\* The CallToolRequestSchema handler: what it returns or rethrows, and the sockets after it.
CallToolHandler(name, args) ==
    LET r == IF name \in {"send_task_event", "request_authorization"}
             THEN Dispatch(name, args)
             ELSE Thrown(Error(<<"Herramienta desconocida", name>>))
    IN  [socks |-> r.socks, error |-> r.error, reply |-> McpReply(r)]

\* a POST /mcp handler whose switch has no default case: other methods are handled
\* as tools/call
PostMcpHandlerNoDefault(req) ==
    LET toolArgs == IF Truthy(req.args) THEN req.args ELSE EmptyObj
        isTool == req.method # "tools/list" /\ req.name \in {"send_task_event", "request_authorization"}
        r == IF isTool THEN Dispatch(req.name, toolArgs) ELSE Returned(<<>>, sockets)
        reply ==
            CASE req.method = "tools/list" -> HttpResult(req.id, HttpToolsList)
              [] isTool ->
                    IF r.ok THEN HttpResult(req.id, r.content)
                    ELSE HttpError(500, IF Truthy(req.id) THEN req.id ELSE Null, -32603,
                                   <<"Internal error">>, r.error.message)
              [] OTHER ->
                    HttpError(200, req.id, -32601, <<"Tool not found", req.name>>, <<>>)
    IN  [socks |-> r.socks, error |-> r.error, reply |-> reply]

\* The POST /mcp handler: the response, and the sockets after it.
PostMcpHandler(req) ==
    LET toolArgs == IF Truthy(req.args) THEN req.args ELSE EmptyObj
        isTool == req.method = "tools/call" /\ req.name \in {"send_task_event", "request_authorization"}
        r == IF isTool THEN Dispatch(req.name, toolArgs) ELSE Returned(<<>>, sockets)
        reply ==
            CASE req.method = "tools/list" -> HttpResult(req.id, HttpToolsList)
              [] isTool ->
                    IF r.ok THEN HttpResult(req.id, r.content)
                    ELSE HttpError(500, IF Truthy(req.id) THEN req.id ELSE Null, -32603,
                                   <<"Internal error">>, r.error.message)
              [] req.method = "tools/call" ->
                    HttpError(200, req.id, -32601, <<"Tool not found", req.name>>, <<>>)
              [] OTHER ->
                    HttpError(200, req.id, -32601, <<"Method not found", req.method>>, <<>>)
    IN  [socks |-> r.socks, error |-> r.error, reply |-> reply]

\* The requests a client posts: tool calls, and requests of other methods.
HttpRequests ==
    { [method |-> "tools/call", id |-> c[1], name |-> c[2], args |-> c[3]] :
          c \in {<<i, n, a>> \in RequestIds \X ToolNames \X (TaskEventInputs \cup AuthorizationInputs) :
                     a \in InputsOf(n)} }
    \cup { [method |-> "tools/call", id |-> i, name |-> n, args |-> EmptyObj] :
               i \in RequestIds, n \in {"delete_everything", "send_task_events"} }
    \cup { [method |-> "tools/call", id |-> i, name |-> "send_task_event", args |-> Null] :
               i \in RequestIds }
    \cup { [method |-> m, id |-> i, name |-> "", args |-> Undefined] :
               m \in {"tools/list", "resources/list"}, i \in RequestIds }

\* a tool call that has a reconnect scheduled when it fails for want of a connection
CallToolReconnects(name, args) ==
    /\ MayCall
    /\ LET h == CallToolHandler(name, args)
           m == IF h.error.name = "Error" /\ h.error.message = NotConnectedMessage
                THEN scheduleReconnect([Fields EXCEPT !.sockets = h.socks])
                ELSE [Fields EXCEPT !.sockets = h.socks]
       IN  /\ Assign(m)
           /\ scheduledDelays' = scheduledDelays \o Added(timers, m)
           /\ call' = [via |-> "mcp", method |-> "tools/call", name |-> name, args |-> args,
                       reply |-> h.reply, error |-> h.error]
    /\ inbound' = NoInbound
    /\ UNCHANGED <<now, running, urlAccepted, failures, inFlight, retried, created>>

CallTool(name, args) ==
    /\ MayCall
    /\ LET h == CallToolHandler(name, args)
       IN  /\ sockets' = h.socks
           /\ call' = [via |-> "mcp", method |-> "tools/call", name |-> name, args |-> args,
                       reply |-> h.reply, error |-> h.error]
    /\ inbound' = NoInbound
    /\ UNCHANGED <<monitorWs, reconnectAttempts, isShuttingDown, timers, now,
                   running, urlAccepted, scheduledDelays, failures, inFlight, retried,
                   created>>

PostMcp(req) ==
    /\ MayCall
    /\ LET h == PostMcpHandler(req)
       IN  /\ sockets' = h.socks
           /\ call' = [via |-> "http", method |-> req.method, name |-> req.name, args |-> req.args,
                       reply |-> h.reply, error |-> h.error]
    /\ inbound' = NoInbound
    /\ UNCHANGED <<monitorWs, reconnectAttempts, isShuttingDown, timers, now,
                   running, urlAccepted, scheduledDelays, failures, inFlight, retried,
                   created>>

Next ==
    \/ Tick
    \/ \E s \in DOMAIN sockets : SocketOpen(s)
    \/ \E s \in DOMAIN sockets : SocketError(s)
    \/ \E s \in DOMAIN sockets : SocketClose(s)
    \/ \E i \in DOMAIN timers : TimerFire(i)
    \/ Shutdown
    \/ \E s \in DOMAIN sockets : \E data \in InboundFrames : SocketMessage(s, data)
    \/ \E name \in ToolNames : \E args \in InputsOf(name) : CallTool(name, args)
    \/ \E req \in HttpRequests : PostMcp(req)
    \/ GetHealth

Spec == Init /\ [][Next]_vars

(***************************************************************************)
(* What the event loop and the ws library guarantee: a pending timer       *)
(* fires, and a closing socket reports its close.  Nothing makes the       *)
(* backend answer a connection attempt: new WebSocket(url) is given no     *)
(* handshakeTimeout, so a socket may stay connecting for ever; and nothing *)
(* makes an open socket fail.                                              *)
(***************************************************************************)
Fairness ==
    /\ WF_vars(\E i \in DOMAIN timers : TimerFire(i))
    /\ WF_vars(\E s \in DOMAIN sockets : sockets[s].readyState = "CLOSING" /\ SocketClose(s))

SpecLive == Init /\ [][Next]_vars /\ Fairness

(***************************************************************************)
(* The program with a backend that never accepts a connection and with no  *)
(* signal sent to the process: no socket opens, so none receives a frame.  *)
(* A connection attempt fails, or stays unanswered.                        *)
(***************************************************************************)
NextRefused ==
    \/ Tick
    \/ \E s \in DOMAIN sockets : SocketError(s)
    \/ \E s \in DOMAIN sockets : SocketClose(s)
    \/ \E i \in DOMAIN timers : TimerFire(i)
    \/ \E name \in ToolNames : \E args \in InputsOf(name) : CallTool(name, args)
    \/ \E req \in HttpRequests : PostMcp(req)
    \/ GetHealth

SpecRefused == Init /\ [][NextRefused]_vars /\ Fairness

(***************************************************************************)
(* A burst of POST /mcp requests.  Express reads the body of each request  *)
(* before it runs the handler, so a request is received in one turn of the *)
(* event loop and handled in a later one, in any order; the response       *)
(* written by the handler reaches the client later still, after the burst. *)
(***************************************************************************)
NoReply == [kind |-> "none"]

InFlightRequests ==
    { [method |-> "tools/call", id |-> Num(1), name |-> "send_task_event", args |-> Obj(TaskEventBase)],
      [method |-> "tools/call", id |-> Num(1), name |-> "request_authorization",
       args |-> Obj(AuthorizationBase)] }

\* A request arrives.
Receive(req) ==
    /\ running
    /\ Len(inFlight) < MaxInFlight
    /\ inFlight' = Append(inFlight, [req |-> req, reply |-> NoReply])
    /\ call' = NoCall
    /\ inbound' = NoInbound
    /\ UNCHANGED <<monitorWs, sockets, reconnectAttempts, isShuttingDown, timers, now,
                   running, urlAccepted, scheduledDelays, failures, retried,
                   created>>

\* The handler runs for the i-th request and writes its response.
Handle(i) ==
    /\ running
    /\ inFlight[i].reply = NoReply
    /\ LET req == inFlight[i].req
           h == PostMcpHandler(req)
       IN  /\ sockets' = h.socks
           /\ call' = [via |-> "http", method |-> req.method, name |-> req.name, args |-> req.args,
                       reply |-> h.reply, error |-> h.error]
           /\ inFlight' = [inFlight EXCEPT ![i].reply = h.reply]
    /\ inbound' = NoInbound
    /\ UNCHANGED <<monitorWs, reconnectAttempts, isShuttingDown, timers, now,
                   running, urlAccepted, scheduledDelays, failures, retried,
                   created>>

NextInFlight ==
    \/ Tick
    \/ \E s \in DOMAIN sockets : SocketOpen(s)
    \/ \E s \in DOMAIN sockets : SocketError(s)
    \/ \E s \in DOMAIN sockets : SocketClose(s)
    \/ \E i \in DOMAIN timers : TimerFire(i)
    \/ Shutdown
    \/ \E s \in DOMAIN sockets : \E data \in InboundFrames : SocketMessage(s, data)
    \/ \E req \in InFlightRequests : Receive(req)
    \/ \E i \in DOMAIN inFlight : Handle(i)

SpecInFlight == Init /\ [][NextInFlight]_vars


(***************************************************************************)
(* What the claims speak of, stated apart from the program's own tests.    *)
(***************************************************************************)
\* Some backend socket is open.
SocketIsOpen == \E s \in DOMAIN sockets : sockets[s].readyState = "OPEN"

IsToolCall(c) ==
    /\ c.via # "none"
    /\ c.method = "tools/call"
    /\ c.name \in {"send_task_event", "request_authorization"}

NonEmptyString(x) == x.t = "string" /\ x.v # ""
MissingOrEmpty(x) == x.t = "undefined" \/ x = Str("")
OptionalString(x) == x.t \in {"undefined", "string"}
OptionalObject(x) == x.t \in {"undefined", "object"}

\* ISO datetimes (UTC) among the inputs, and inputs that are no ISO datetime
IsoDatetimes == {"2025-01-01T00:00:00Z", "2025-01-01T00:00:00.5Z", "2025-01-01T00:00Z"}
NotIsoDatetimes == {"", "tomorrow", "2025-13-01T00:00:00Z"}

ValidTaskEvent(a) ==
    /\ a.t = "object"
    /\ NonEmptyString(Get(a, "taskId"))
    /\ NonEmptyString(Get(a, "description"))
    /\ Get(a, "type") \in {Str("task_completed"), Str("task_started"), Str("task_failed")}
    /\ OptionalString(Get(a, "userId"))
    /\ OptionalObject(Get(a, "metadata"))

ValidAuthorization(a) ==
    /\ a.t = "object"
    /\ NonEmptyString(Get(a, "taskId"))
    /\ NonEmptyString(Get(a, "action"))
    /\ NonEmptyString(Get(a, "description"))
    /\ Get(a, "requiredBy") \in {Str(d) : d \in IsoDatetimes}
    /\ OptionalString(Get(a, "userId"))
    /\ OptionalObject(Get(a, "metadata"))

ValidCall(c) ==
    /\ IsToolCall(c)
    /\ IF c.name = "send_task_event" THEN ValidTaskEvent(c.args) ELSE ValidAuthorization(c.args)

\* The required-field violations of claim C7.
ViolatesRequired(c) ==
    /\ IsToolCall(c)
    /\ IF c.name = "send_task_event"
       THEN \/ MissingOrEmpty(Get(c.args, "taskId"))
            \/ MissingOrEmpty(Get(c.args, "description"))
            \/ Get(c.args, "type") \notin {Str("task_completed"), Str("task_started"), Str("task_failed")}
       ELSE \/ MissingOrEmpty(Get(c.args, "taskId"))
            \/ MissingOrEmpty(Get(c.args, "action"))
            \/ MissingOrEmpty(Get(c.args, "description"))
            \/ Get(c.args, "requiredBy").t = "undefined"
            \/ Get(c.args, "requiredBy") \in {Str(d) : d \in NotIsoDatetimes}

Succeeded(c) == c.via # "none" /\ c.reply.kind = "result"

\* The call failed with the not-connected error.
NotConnectedFailure(c) ==
    /\ c.via # "none"
    /\ c.error.name = "Error"
    /\ c.error.message = <<"Monitor no conectado. Verificar conexion WebSocket.">>
    /\ IF c.via = "mcp" THEN c.reply.kind = "thrown" /\ c.reply.error = c.error
       ELSE c.reply.kind = "error" /\ c.reply.status = 500 /\ c.reply.data = c.error.message

\* The call failed with a validation error.
ValidationFailure(c) ==
    /\ c.via # "none"
    /\ c.error.name = "ZodError"
    /\ c.error.issues # <<>>
    /\ IF c.via = "mcp" THEN c.reply.kind = "thrown" /\ c.reply.error = c.error
       ELSE c.reply.kind = "error" /\ c.reply.status = 500 /\ c.reply.data = c.error.message

\* The frames a step appends to socket s; a socket created by the step has none.
IsPrefix(a, b) == Len(a) <= Len(b) /\ SubSeq(b, 1, Len(a)) = a
Extends(s) ==
    \/ sockets'[s].sent = <<>>
    \/ s \in DOMAIN sockets /\ IsPrefix(sockets[s].sent, sockets'[s].sent)
Appended(s) ==
    IF sockets'[s].sent = <<>> THEN <<>>
    ELSE SubSeq(sockets'[s].sent, Len(sockets[s].sent) + 1, Len(sockets'[s].sent))
\* The step writes no frame.
NothingWritten == \A s \in DOMAIN sockets' : Extends(s) /\ Appended(s) = <<>>

\* The step in which a connecting socket opens.
OpenStep ==
    \E s \in DOMAIN sockets \cap DOMAIN sockets' :
        sockets[s].readyState = "CONNECTING" /\ sockets'[s].readyState = "OPEN"

\* Frame f is the envelope of the input of call c.
FrameOf(c, f) ==
    /\ f.type = IF c.name = "send_task_event" THEN "task_event" ELSE "authorization_request"
    /\ f.payload["taskId"] = Get(c.args, "taskId")
    /\ f.payload["description"] = Get(c.args, "description")

\* The kind of failure a call of tool name with args is, if it is one.
AsCall(name, args) == [via |-> "any", method |-> "tools/call", name |-> name, args |-> args]

FailureKind(name, args) ==
    CASE name \notin {"send_task_event", "request_authorization"} -> "unknown tool"
      [] ViolatesRequired(AsCall(name, args)) -> "validation"
      [] ValidCall(AsCall(name, args)) /\ ~SocketIsOpen -> "backend unavailable"
      [] OTHER -> "none"

HttpErrorKind(reply) == <<reply.kind, reply.status, reply.code>>
McpErrorKind(reply) == <<reply.kind, reply.error.name>>

ToolCalls == {<<n, a>> \in ToolNames \X (TaskEventInputs \cup AuthorizationInputs \cup {EmptyObj}) :
                  a \in InputsOf(n)}

\* A call of a tool that is none of the two tools.
IsUnknownToolCall(c) ==
    /\ c.via # "none"
    /\ c.method = "tools/call"
    /\ c.name \notin {"send_task_event", "request_authorization"}

Range(f) == {f[i] : i \in DOMAIN f}

\* The call failed with an error that says the tool is unknown and names it.
UnknownToolFailure(c) ==
    IF c.via = "mcp"
    THEN /\ c.reply.kind = "thrown"
         /\ c.reply.error.name = "Error"
         /\ "Herramienta desconocida" \in Range(c.reply.error.message)
         /\ c.name \in Range(c.reply.error.message)
    ELSE /\ c.reply.kind = "error"
         /\ c.reply.code = -32601
         /\ "Tool not found" \in Range(c.reply.message)
         /\ c.name \in Range(c.reply.message)

\* The places <<socket, position>> of the authorization_request frames written.
AuthorizationFrames ==
    {p \in (DOMAIN sockets) \X (1..(MaxInFlight + 2)) :
        /\ p[2] <= Len(sockets[p[1]].sent)
        /\ sockets[p[1]].sent[p[2]].type = "authorization_request"}

\* The connecting and open sockets.
LiveSockets == {s \in DOMAIN sockets : sockets[s].readyState \in {"CONNECTING", "OPEN"}}

\* The sockets not yet closed, counted; only the creation of a socket adds to them.
Unclosed(socks) == Cardinality({s \in DOMAIN socks : socks[s].readyState # "CLOSED"})
SocketCreated == Unclosed(sockets') > Unclosed(sockets)

\* The fields m once every socket has closed.
AllClosed(m) ==
    [m EXCEPT !.sockets = [s \in DOMAIN m.sockets |-> [m.sockets[s] EXCEPT !.readyState = "CLOSED"]]]

\* The step in which socket s, connecting or open, reports an error: ws leaves it closing.
ErrorStep(s) ==
    /\ s \in DOMAIN sockets \cap DOMAIN sockets'
    /\ sockets[s].readyState \in {"CONNECTING", "OPEN"}
    /\ sockets'[s].readyState = "CLOSING"
    /\ ~isShuttingDown'

\* The step in which socket s reports its close.
CloseStep(s) ==
    /\ s \in DOMAIN sockets \cap DOMAIN sockets'
    /\ sockets[s].readyState # "CLOSED"
    /\ sockets'[s].readyState = "CLOSED"

\* The arguments satisfy the input schema a tools/list entry advertises.
SatisfiesAdvertised(tool, args) ==
    /\ args.t = "object"
    /\ tool.required \subseteq DOMAIN args.o
    /\ DOMAIN args.o \subseteq tool.properties
    /\ \A k \in tool.required : args.o[k].t = "string"
    /\ \A k \in DOMAIN args.o \cap DOMAIN tool.enum : args.o[k].v \in tool.enum[k]

(***************************************************************************)
(* C1.  A valid tool call succeeds only while a backend socket is open;    *)
(* while none is open (never connected, connecting, in backoff, given up,  *)
(* closing) it fails with the not-connected error and writes no frame.     *)
(***************************************************************************)
C1_SuccessOnlyWhenOpen ==
    [][ ValidCall(call') =>
          /\ Succeeded(call') => SocketIsOpen
          /\ ~SocketIsOpen => NotConnectedFailure(call') /\ NothingWritten ]_vars

C1_Witness ==
    /\ ValidCall(call)
    /\ NotConnectedFailure(call)
    /\ reconnectAttempts > maxReconnectAttempts
    /\ ~SocketIsOpen

(***************************************************************************)
(* C2.  Every socket that has been open carries exactly one identify       *)
(* frame, and it is the first frame; a socket never open carries none.     *)
(***************************************************************************)
C2_IdentifyFirstAndOnce ==
    \A s \in DOMAIN sockets :
        LET sent == sockets[s].sent
        IN  IF sockets[s].wasOpen
            THEN /\ Len(sent) >= 1
                 /\ sent[1].type = "mcp_client_identify"
                 /\ \A i \in 2..Len(sent) : sent[i].type # "mcp_client_identify"
            ELSE sent = <<>>

C2_Witness ==
    \E s \in DOMAIN sockets :
        /\ Len(sockets[s].sent) = 2
        /\ sockets[s].sent[1].type = "mcp_client_identify"
        /\ sockets[s].sent[2].type = "task_event"

(***************************************************************************)
(* C3.  After N consecutive failed attempts, 1 <= N <= 10, exactly N       *)
(* reconnect timers have been scheduled, the k-th with delay               *)
(* min(5000 * k, 30000).                                                   *)
(***************************************************************************)
C3_BackoffDelays ==
    failures \in 1..10 =>
        /\ Len(scheduledDelays) = failures
        /\ \A k \in 1..failures :
              scheduledDelays[k] = IF 5000 * k < 30000 THEN 5000 * k ELSE 30000

C3_Witness ==
    /\ failures = 10
    /\ scheduledDelays = <<5000, 10000, 15000, 20000, 25000, 30000, 30000, 30000, 30000, 30000>>
    /\ timers = <<30000>>

(***************************************************************************)
(* C4.  Once more than maxReconnectAttempts consecutive attempts have      *)
(* failed, no timer is pending, none is scheduled and no socket is created.*)
(***************************************************************************)
C4_GiveUp ==
    /\ [](failures > 10 => timers = <<>> /\ \A s \in DOMAIN sockets : sockets[s].readyState = "CLOSED")
    /\ [][ failures > 10 =>
             /\ timers' = <<>>
             /\ scheduledDelays' = scheduledDelays
             /\ monitorWs' = monitorWs
             /\ DOMAIN sockets' = DOMAIN sockets
             /\ failures' = failures ]_vars

C4_Witness ==
    /\ failures = 11
    /\ reconnectAttempts = 11
    /\ Len(scheduledDelays) = 10
    /\ timers = <<>>
    /\ running

(***************************************************************************)
(* C5.  Every failed attempt adds one to the attempt counter, the counter  *)
(* is zero after every open, and so the first failure after an open is     *)
(* attempt 1.                                                              *)
(***************************************************************************)
C5_AttemptCounter ==
    /\ [][ /\ OpenStep => reconnectAttempts' = 0
           /\ failures' = failures + 1 => reconnectAttempts' = reconnectAttempts + 1 ]_vars
    /\ [](SocketIsOpen => reconnectAttempts = 0)
    /\ [](failures = 1 => reconnectAttempts = 1 /\ scheduledDelays = <<5000>>)

C5_Witness ==
    /\ monitorWs # 0
    /\ sockets[monitorWs].wasOpen
    /\ sockets[monitorWs].readyState = "CLOSED"
    /\ failures = 1
    /\ reconnectAttempts = 1
    /\ timers = <<5000>>


(***************************************************************************)
(* C6.  Nothing is buffered or retried: a step writes a frame only if it   *)
(* is an open event writing the identify frame, or a tool call that        *)
(* succeeds, which writes the one frame of its own input on the socket in  *)
(* use; a call that fails writes nothing, in that step or in a later one.  *)
(***************************************************************************)
C6_NoBuffering ==
    [][ \A s \in DOMAIN sockets' :
          /\ Extends(s)
          /\ LET added == Appended(s)
             IN  CASE IsToolCall(call') /\ Succeeded(call') ->
                          /\ Len(added) <= 1
                          /\ added # <<>> => s = monitorWs /\ FrameOf(call', added[1])
                   [] call'.via # "none" -> added = <<>>
                   [] OTHER -> \A i \in 1..Len(added) : added[i].type = "mcp_client_identify" ]_vars

C6_Witness ==
    /\ ValidCall(call)
    /\ NotConnectedFailure(call)
    /\ timers # <<>>
    /\ monitorWs # 0
    /\ sockets[monitorWs].wasOpen
    /\ Len(sockets[monitorWs].sent) = 1

(***************************************************************************)
(* C7.  A tool call whose arguments violate a required-field constraint    *)
(* fails with a validation error and writes no frame, whatever the state   *)
(* of the connection.                                                      *)
(***************************************************************************)
C7_InvalidRejected ==
    [][ ViolatesRequired(call') => ValidationFailure(call') /\ NothingWritten ]_vars

C7_Witness ==
    /\ ViolatesRequired(call)
    /\ call.name = "request_authorization"
    /\ Get(call.args, "requiredBy") = Str("tomorrow")
    /\ ValidationFailure(call)
    /\ SocketIsOpen

(***************************************************************************)
(* C8.  A valid send_task_event dispatched while the socket is open writes *)
(* exactly one frame: a task_event whose taskId, type and description are  *)
(* the input's and whose metadata.source is the configured source name.    *)
(***************************************************************************)
C8_TaskEventEnvelope ==
    [][ ( /\ IsToolCall(call')
          /\ call'.name = "send_task_event"
          /\ ValidTaskEvent(call'.args)
          /\ SocketIsOpen ) =>
          /\ monitorWs # 0
          /\ \A s \in DOMAIN sockets' :
                /\ Extends(s)
                /\ Len(Appended(s)) = IF s = monitorWs THEN 1 ELSE 0
          /\ LET f == Appended(monitorWs)[1]
             IN  /\ f.type = "task_event"
                 /\ f.payload["taskId"] = Get(call'.args, "taskId")
                 /\ f.payload["type"] = Get(call'.args, "type")
                 /\ f.payload["description"] = Get(call'.args, "description")
                 /\ Get(f.payload["metadata"], "source") = Str(ConfigSourceName) ]_vars

C8_Witness ==
    /\ IsToolCall(call)
    /\ call.name = "send_task_event"
    /\ Get(Get(call.args, "metadata"), "source") = Str("caller")
    /\ Succeeded(call)
    /\ LET sent == sockets[monitorWs].sent
       IN  /\ Len(sent) = 2
           /\ sent[2].type = "task_event"
           /\ Get(sent[2].payload["metadata"], "source") = Str(ConfigSourceName)
           /\ Get(sent[2].payload["metadata"], "k") = Str("v")

(***************************************************************************)
(* C9.  The envelope of a valid call carries the userId the caller gave,   *)
(* the empty string included, and the configured default only when the     *)
(* caller gave none.                                                       *)
(***************************************************************************)
C9_UserIdAsProvided ==
    (ValidCall(call) /\ Succeeded(call)) =>
        LET sent == sockets[monitorWs].sent
            given == Get(call.args, "userId")
        IN  sent[Len(sent)].payload["userId"] =
                IF given.t = "undefined" THEN Str(ConfigUserId) ELSE given

(***************************************************************************)
(* C10.  On each front end, two failed calls of different kinds            *)
(* (validation failure, unknown tool, backend unavailable) get replies of  *)
(* different structured kinds: the status and error code of the POST /mcp  *)
(* response, the class of the error the tool handler throws.               *)
(***************************************************************************)
C10_FailureKindsDistinct ==
    \A c, d \in ToolCalls :
        LET kc == FailureKind(c[1], c[2])
            kd == FailureKind(d[1], d[2])
        IN  (kc # "none" /\ kd # "none" /\ kc # kd) =>
                /\ HttpErrorKind(PostMcpHandler([method |-> "tools/call", id |-> Num(1),
                                                 name |-> c[1], args |-> c[2]]).reply)
                   # HttpErrorKind(PostMcpHandler([method |-> "tools/call", id |-> Num(1),
                                                   name |-> d[1], args |-> d[2]]).reply)
                /\ McpErrorKind(CallToolHandler(c[1], c[2]).reply)
                   # McpErrorKind(CallToolHandler(d[1], d[2]).reply)

(***************************************************************************)
(* C11.  A call of a tool of any other name fails with an unknown-tool     *)
(* error that carries the name; the arguments are not validated, no frame  *)
(* is written and the connection state stays as it is, whatever the        *)
(* arguments and the connection state.                                     *)
(***************************************************************************)
C11_UnknownTool ==
    [][ IsUnknownToolCall(call') =>
          /\ UnknownToolFailure(call')
          /\ call'.error.name # "ZodError"
          /\ NothingWritten
          /\ UNCHANGED <<monitorWs, sockets, reconnectAttempts, isShuttingDown, timers, running>> ]_vars

C11_Witness ==
    /\ IsUnknownToolCall(call)
    /\ call.via = "mcp"
    /\ call.name = "send_task_events"
    /\ call.args = EmptyObj
    /\ call.reply.error.message = <<"Herramienta desconocida", "send_task_events">>
    /\ SocketIsOpen

(***************************************************************************)
(* C12.  A valid request_authorization dispatched while the socket is open *)
(* writes exactly one frame: an authorization_request with a requestId     *)
(* made for the call and the input's taskId, action, description and       *)
(* requiredBy; the call returns a success text with the action and the     *)
(* task id.                                                                *)
(***************************************************************************)
C12_AuthorizationEnvelope ==
    [][ ( /\ IsToolCall(call')
          /\ call'.name = "request_authorization"
          /\ ValidAuthorization(call'.args)
          /\ SocketIsOpen ) =>
          /\ monitorWs # 0
          /\ \A s \in DOMAIN sockets' :
                /\ Extends(s)
                /\ Len(Appended(s)) = IF s = monitorWs THEN 1 ELSE 0
          /\ LET f == Appended(monitorWs)[1]
             IN  /\ f.type = "authorization_request"
                 /\ {"requestId", "taskId", "action", "description", "requiredBy"} \subseteq DOMAIN f.payload
                 /\ f.payload["requestId"].t = "string"
                 /\ f.payload["requestId"] = AuthId(now)
                 /\ f.payload["taskId"] = Get(call'.args, "taskId")
                 /\ f.payload["action"] = Get(call'.args, "action")
                 /\ f.payload["description"] = Get(call'.args, "description")
                 /\ f.payload["requiredBy"] = Get(call'.args, "requiredBy")
          /\ Succeeded(call')
          /\ Len(call'.reply.content) = 4
          /\ call'.reply.content[2] = Get(call'.args, "action")
          /\ call'.reply.content[4] = Get(call'.args, "taskId") ]_vars

C12_Witness ==
    /\ IsToolCall(call)
    /\ call.name = "request_authorization"
    /\ call.args = Obj(AuthorizationBase)
    /\ now = 1
    /\ call.reply.content = <<"Solicitud de autorizacion enviada", Str("deploy"), "para tarea", Str("t2")>>
    /\ LET sent == sockets[monitorWs].sent
       IN  /\ Len(sent) = 2
           /\ sent[2].type = "authorization_request"
           /\ sent[2].payload["requestId"] = AuthId(1)
           /\ sent[2].payload["requiredBy"] = Str("2025-01-01T00:00:00Z")

(***************************************************************************)
(* C13.  No two authorization_request frames written in one process        *)
(* lifetime carry the same requestId, two calls made in the same           *)
(* millisecond included.                                                   *)
(***************************************************************************)
C13_RequestIdsUnique ==
    \A p, q \in AuthorizationFrames :
        p # q => sockets[p[1]].sent[p[2]].payload["requestId"]
                 # sockets[q[1]].sent[q[2]].payload["requestId"]

(***************************************************************************)
(* C14.  When a socket that was open is closed and no shutdown was         *)
(* requested, no socket is open any longer and exactly one reconnect timer *)
(* is scheduled, of 5000 ms, whatever failures preceded the open.          *)
(***************************************************************************)
C14_ReconnectAfterPeerClose ==
    [][ \A s \in DOMAIN sockets \cap DOMAIN sockets' :
          ( /\ sockets[s].wasOpen
            /\ sockets[s].readyState # "CLOSED"
            /\ sockets'[s].readyState = "CLOSED"
            /\ ~isShuttingDown ) =>
              /\ \A t \in DOMAIN sockets' : sockets'[t].readyState # "OPEN"
              /\ timers = <<>>
              /\ timers' = <<5000>>
              /\ reconnectAttempts' = 1 ]_vars

C14_Witness ==
    /\ monitorWs # 0
    /\ sockets[monitorWs].wasOpen
    /\ sockets[monitorWs].readyState = "CLOSED"
    /\ Len(sockets[monitorWs].sent) = 2
    /\ timers = <<5000>>
    /\ scheduledDelays = <<5000>>
    /\ ~isShuttingDown

(***************************************************************************)
(* C15.  After a shutdown request no reconnect timer is scheduled and the  *)
(* attempt counter stays as it is: in the steps the program takes, and for *)
(* the close handler were it to run on the state shutdown leaves.          *)
(***************************************************************************)
C15_NoReconnectAfterShutdown ==
    /\ [][ isShuttingDown' =>
             /\ timers' = timers
             /\ scheduledDelays' = scheduledDelays
             /\ reconnectAttempts' = reconnectAttempts ]_vars
    /\ [](LET m == AllClosed(shutdown(Fields))
          IN  /\ onClose(m).timers = m.timers
              /\ onClose(m).reconnectAttempts = m.reconnectAttempts)

C15_Witness ==
    /\ isShuttingDown
    /\ timers = <<15000>>
    /\ reconnectAttempts = 3
    /\ \A s \in DOMAIN sockets : sockets[s].readyState = "CLOSED"

(***************************************************************************)
(* C16.  shutdown closes the live socket, a timer pending at shutdown      *)
(* creates no socket when it fires, and a second shutdown changes nothing. *)
(***************************************************************************)
C16_ShutdownClosesAndIsIdempotent ==
    /\ [](LET m == shutdown(Fields)
          IN  /\ m.isShuttingDown
              /\ \A s \in DOMAIN m.sockets : m.sockets[s].readyState \notin {"CONNECTING", "OPEN"}
              /\ \A constructs \in BOOLEAN : connectToMonitor(m, constructs) = m
              /\ shutdown(m) = m)
    /\ [](isShuttingDown => \A s \in DOMAIN sockets : sockets[s].readyState \notin {"CONNECTING", "OPEN"})
    /\ [][ isShuttingDown => DOMAIN sockets' = DOMAIN sockets /\ monitorWs' = monitorWs ]_vars

C16_Witness ==
    /\ isShuttingDown
    /\ monitorWs # 0
    /\ sockets[monitorWs].wasOpen
    /\ sockets[monitorWs].readyState = "CLOSING"
    /\ Len(sockets[monitorWs].sent) = 2

(***************************************************************************)
(* C17.  At most one reconnect timer is pending, and none while a socket   *)
(* is connecting or open.                                                  *)
(***************************************************************************)
C17_SingleTimer ==
    /\ Len(timers) <= 1
    /\ LiveSockets # {} => timers = <<>>

C17_Witness ==
    /\ timers = <<30000>>
    /\ reconnectAttempts = 7
    /\ LiveSockets = {}
    /\ IsUnknownToolCall(call)

(***************************************************************************)
(* C18.  At most one socket is connecting or open, and it is the one send  *)
(* uses; a socket is created only when every earlier one has closed, and   *)
(* it becomes the one send uses.                                           *)
(***************************************************************************)
C18_SingleSocket ==
    /\ [](Cardinality(LiveSockets) <= 1 /\ LiveSockets \subseteq {monitorWs})
    /\ [][ SocketCreated =>
             /\ \A s \in DOMAIN sockets : sockets[s].readyState = "CLOSED"
             /\ monitorWs' \in DOMAIN sockets'
             /\ sockets'[monitorWs'] = NewSocket
             /\ \A s \in DOMAIN sockets' \ {monitorWs'} : sockets'[s].readyState = "CLOSED" ]_vars

C18_Witness ==
    /\ monitorWs # 0
    /\ sockets[monitorWs].readyState = "CONNECTING"
    /\ reconnectAttempts = 2
    /\ timers = <<>>
    /\ failures = 2

(***************************************************************************)
(* C19.  Of the tool calls in flight together while the connection goes    *)
(* from open to not open, at most one succeeds and every other one that    *)
(* has been answered failed with the not-connected error.                  *)
(***************************************************************************)
C19_AtMostOneRacingSuccess ==
    LET answered == {i \in DOMAIN inFlight : inFlight[i].reply.kind # "none"}
        succeeded == {i \in answered : inFlight[i].reply.kind = "result"}
    IN  (Len(inFlight) >= 2 /\ succeeded # {} /\ ~SocketIsOpen) =>
            /\ Cardinality(succeeded) <= 1
            /\ \A i \in answered \ succeeded :
                  /\ inFlight[i].reply.kind = "error"
                  /\ inFlight[i].reply.data = <<"Monitor no conectado. Verificar conexion WebSocket.">>

(***************************************************************************)
(* C20.  An inbound frame, well-formed JSON or not, leaves the connection  *)
(* state, the attempt counter, the pending timers and the frames written   *)
(* as they are, raises nothing to a tool caller and does not stop the      *)
(* manager.                                                                *)
(***************************************************************************)
C20_InboundFrameHasNoEffect ==
    [][ inbound' # NoInbound =>
          /\ UNCHANGED <<monitorWs, sockets, reconnectAttempts, isShuttingDown, timers>>
          /\ UNCHANGED inFlight
          /\ call' = NoCall
          /\ ~inbound'.threw
          /\ running' ]_vars

C20_Witness ==
    /\ inbound # NoInbound
    /\ inbound.data = "not json"
    /\ inbound.level = "error"
    /\ running
    /\ monitorWs # 0
    /\ sockets[monitorWs].readyState = "OPEN"
    /\ Len(sockets[monitorWs].sent) = 2

(***************************************************************************)
(* C21.  The metadata of every envelope written for a tool call holds the  *)
(* caller's metadata keys other than source and timestamp with the         *)
(* caller's values, and the injected source and timestamp, which replace   *)
(* the caller's: source is the configured source name.                     *)
(***************************************************************************)
C21_MetadataMerge ==
    [][ (IsToolCall(call') /\ Succeeded(call')) =>
          /\ monitorWs # 0
          /\ Len(Appended(monitorWs)) = 1
          /\ LET metadata == Appended(monitorWs)[1].payload["metadata"]
                 given == Get(call'.args, "metadata")
                 givenKeys == IF given.t = "object" THEN DOMAIN given.o ELSE {}
             IN  /\ metadata.t = "object"
                 /\ DOMAIN metadata.o = givenKeys \cup {"source", "timestamp"}
                 /\ \A k \in givenKeys \ {"source", "timestamp"} : metadata.o[k] = given.o[k]
                 /\ metadata.o["source"] = Str("trae-mcp-monitor")
                 /\ metadata.o["timestamp"] = toISOString(now) ]_vars

C21_Witness ==
    /\ IsToolCall(call)
    /\ call.name = "request_authorization"
    /\ Get(call.args, "metadata") = CallerMetadata
    /\ Succeeded(call)
    /\ now = 1
    /\ LET sent == sockets[monitorWs].sent
       IN  /\ Len(sent) = 2
           /\ sent[2].payload["metadata"] =
                  Obj(("source" :> Str("trae-mcp-monitor")) @@ ("timestamp" :> toISOString(1))
                      @@ ("k" :> Str("v")))

(***************************************************************************)
(* C22.  As claimed: when a connecting or open socket reports a close or   *)
(* an error, and neither shutdown nor give-up applies, a reconnect timer   *)
(* is scheduled by that event, an error event by itself included.          *)
(***************************************************************************)
C22_ErrorOrCloseSchedulesReconnect ==
    [][ \A s \in DOMAIN sockets :
          ( /\ ErrorStep(s) \/ CloseStep(s)
            /\ sockets[s].readyState \in {"CONNECTING", "OPEN"}
            /\ ~isShuttingDown
            /\ reconnectAttempts < 10 ) =>
              /\ \A t \in DOMAIN sockets' : sockets'[t].readyState \notin {"CONNECTING", "OPEN"}
              /\ Len(timers') = 1 ]_vars

(***************************************************************************)
(* C22, amended.  When a socket reports its close, from open or after an   *)
(* error, and neither shutdown nor give-up applies, no socket is live and  *)
(* one reconnect timer of min(5000 * attempt, 30000) ms is scheduled; an   *)
(* error event by itself leaves the socket closing and schedules nothing.  *)
(***************************************************************************)
C22_CloseSchedulesReconnect ==
    [][ \A s \in DOMAIN sockets :
          /\ (CloseStep(s) /\ ~isShuttingDown /\ reconnectAttempts < 10) =>
                /\ \A t \in DOMAIN sockets' : sockets'[t].readyState \notin {"CONNECTING", "OPEN"}
                /\ timers = <<>>
                /\ timers' = << IF 5000 * (reconnectAttempts + 1) < 30000
                                THEN 5000 * (reconnectAttempts + 1) ELSE 30000 >>
          /\ ErrorStep(s) =>
                /\ \A t \in DOMAIN sockets' : sockets'[t].readyState \notin {"CONNECTING", "OPEN"}
                /\ timers' = timers
                /\ timers' = <<>> ]_vars

C22_Witness ==
    /\ monitorWs # 0
    /\ sockets[monitorWs].readyState = "CLOSING"
    /\ sockets[monitorWs].wasOpen
    /\ ~isShuttingDown
    /\ running
    /\ timers = <<>>
    /\ reconnectAttempts = 0

(***************************************************************************)
(* C23.  In every state in which the manager has given up, a fresh call of *)
(* connectToMonitor starts a connection attempt, and when that attempt     *)
(* fails a reconnect timer is scheduled again.                             *)
(***************************************************************************)
C23_FreshConnectResumes ==
    (failures > 10 /\ ~isShuttingDown) =>
        LET started == connectToMonitor(Fields, TRUE)
            failed == onClose(AllClosed(started))
        IN  /\ started.monitorWs \in DOMAIN started.sockets
            /\ started.sockets[started.monitorWs].readyState = "CONNECTING"
            /\ failed.timers # <<>>

(***************************************************************************)
(* C24.  Reconnection is live: provided the backend answers every          *)
(* connection attempt, by accepting it or by failing it, then whenever no  *)
(* socket is open, unless shutdown is requested or more than               *)
(* maxReconnectAttempts consecutive attempts fail, a socket is eventually  *)
(* open again, with the identify frame sent on it.                         *)
(***************************************************************************)
\* No connection attempt awaits the backend's answer.
NoAttemptPending == \A s \in DOMAIN sockets : sockets[s].readyState # "CONNECTING"

C24_ReconnectionIsLive ==
    []<>NoAttemptPending =>
    ((~SocketIsOpen /\ ~isShuttingDown /\ failures <= 10)
        ~> ( \/ \E s \in DOMAIN sockets :
                  /\ sockets[s].readyState = "OPEN"
                  /\ s = monitorWs
                  /\ Len(sockets[s].sent) >= 1
                  /\ sockets[s].sent[1].type = "mcp_client_identify"
            \/ isShuttingDown
            \/ failures > 10 ))

C24_Witness ==
    /\ retried
    /\ monitorWs # 0
    /\ sockets[monitorWs].readyState = "OPEN"
    /\ sockets[monitorWs].sent = <<IdentifyMessage>>
    /\ reconnectAttempts = 0
    /\ now = 1

(***************************************************************************)
(* C25.  The health report says 'connected' exactly when a socket is open, *)
(* which is exactly when a valid call of either tool made in that state    *)
(* succeeds, and 'disconnected' otherwise; a GET /health step answers with *)
(* that report and changes no socket, counter or timer.                    *)
(***************************************************************************)
C25_HealthIsProjection ==
    /\ [](/\ HealthReport.websocket = IF SocketIsOpen THEN "connected" ELSE "disconnected"
          /\ (HealthReport.websocket = "connected") <=> sendTaskEvent(Obj(TaskEventBase)).ok
          /\ (HealthReport.websocket = "connected") <=> requestAuthorization(Obj(AuthorizationBase)).ok)
    /\ [][ call'.via = "health" =>
             /\ call'.reply.body.websocket = IF SocketIsOpen THEN "connected" ELSE "disconnected"
             /\ UNCHANGED <<monitorWs, sockets, reconnectAttempts, isShuttingDown, timers, running>> ]_vars

C25_Witness ==
    /\ call.via = "health"
    /\ call.reply.body.websocket = "disconnected"
    /\ monitorWs # 0
    /\ sockets[monitorWs].readyState = "CLOSING"
    /\ sockets[monitorWs].wasOpen

(***************************************************************************)
(* C27.  A send_task_event call on POST /mcp is not rejected as invalid    *)
(* when its arguments are {taskId, type, description}, nor when they       *)
(* satisfy the input schema tools/list advertises on that endpoint,        *)
(* {task_id, event_type, message}; with the socket open it succeeds.       *)
(***************************************************************************)
C27_BothWireSchemasAccepted ==
    [][ ( /\ call'.via = "http"
          /\ call'.method = "tools/call"
          /\ call'.name = "send_task_event"
          /\ \/ ValidTaskEvent(call'.args)
             \/ SatisfiesAdvertised(HttpToolsList[1], call'.args) ) =>
          /\ ~ValidationFailure(call')
          /\ SocketIsOpen => Succeeded(call') ]_vars

(***************************************************************************)
(* C28.  Validation comes before the connection check: a tool call with    *)
(* invalid arguments fails with the validation error, never with the       *)
(* not-connected error, whether a socket is open or not.                   *)
(***************************************************************************)
C28_ValidationBeforeConnection ==
    [][ (IsToolCall(call') /\ ~ValidCall(call')) =>
          /\ ValidationFailure(call')
          /\ ~NotConnectedFailure(call')
          /\ call'.error.message # <<"Monitor no conectado. Verificar conexion WebSocket.">>
          /\ NothingWritten ]_vars

C28_Witness ==
    /\ IsToolCall(call)
    /\ call.name = "send_task_event"
    /\ Get(call.args, "taskId") = Num(7)
    /\ ValidationFailure(call)
    /\ ~SocketIsOpen
    /\ timers = <<10000>>

(***************************************************************************)
(* C29.  Once the manager has given up it stays so: no socket is open or   *)
(* created again, the process keeps running until shutdown, every valid    *)
(* tool call fails with the not-connected error and the health report says *)
(* 'disconnected'.                                                         *)
(***************************************************************************)
C29_GiveUpPersists ==
    /\ [](failures > 10 =>
            /\ ~SocketIsOpen
            /\ LiveSockets = {}
            /\ timers = <<>>
            /\ HealthReport.websocket = "disconnected"
            /\ running \/ isShuttingDown)
    /\ [][ failures > 10 =>
             /\ failures' > 10
             /\ ValidCall(call') => NotConnectedFailure(call') /\ NothingWritten
             /\ call'.via = "health" => call'.reply.body.websocket = "disconnected" ]_vars

C29_Witness ==
    /\ failures = 11
    /\ running
    /\ call.via = "health"
    /\ call.reply.body.websocket = "disconnected"
    /\ call.reply.body.timestamp = toISOString(1)

(***************************************************************************)
(* C30.  An error event leaves the attempt counter and the pending timers  *)
(* as they are; the close event of the socket adds exactly one to the      *)
(* counter and schedules at most one timer; so a failure that raises both  *)
(* counts once: the counter is the number of failed attempts.              *)
(***************************************************************************)
C30_ErrorAndCloseCountOnce ==
    /\ [][ \A s \in DOMAIN sockets :
             /\ ErrorStep(s) =>
                   /\ reconnectAttempts' = reconnectAttempts
                   /\ timers' = timers
                   /\ scheduledDelays' = scheduledDelays
             /\ (CloseStep(s) /\ ~isShuttingDown) =>
                   /\ reconnectAttempts' = reconnectAttempts + 1
                   /\ Len(timers') <= 1
                   /\ Len(scheduledDelays') <= Len(scheduledDelays) + 1 ]_vars
    /\ [](reconnectAttempts = failures)

C30_Witness ==
    /\ monitorWs # 0
    /\ sockets[monitorWs].readyState = "CLOSING"
    /\ ~sockets[monitorWs].wasOpen
    /\ ~isShuttingDown
    /\ reconnectAttempts = 2
    /\ failures = 2
    /\ timers = <<>>

(***************************************************************************)
(* C31.  The attempt counter stays within 0..maxReconnectAttempts + 1, and *)
(* it is maxReconnectAttempts + 1 only when the manager has given up: no   *)
(* timer is pending and no socket is connecting or open.                   *)
(***************************************************************************)
C31_CounterRange ==
    /\ reconnectAttempts \in 0..(maxReconnectAttempts + 1)
    /\ reconnectAttempts = maxReconnectAttempts + 1 =>
          /\ timers = <<>>
          /\ LiveSockets = {}

C31_Witness ==
    /\ reconnectAttempts = maxReconnectAttempts + 1
    /\ urlAccepted
    /\ monitorWs # 0
    /\ sockets[monitorWs].readyState = "CLOSED"
    /\ ~sockets[monitorWs].wasOpen
    /\ ~isShuttingDown

(***************************************************************************)
(* C32.  As claimed: with a backend that never accepts and no shutdown,    *)
(* the reconnect loop ends: from some point on no timer is pending and     *)
(* every socket is closed, and then maxReconnectAttempts + 1 = 11 sockets  *)
(* have been constructed, the first by the constructor and 10 by timers;   *)
(* never more than 11 are.  (With a URL that new WebSocket rejects, the 11 *)
(* attempts construct no socket.)                                          *)
(***************************************************************************)
C32_Quiescent ==
    /\ timers = <<>>
    /\ \A s \in DOMAIN sockets : sockets[s].readyState = "CLOSED"
    /\ failures = maxReconnectAttempts + 1
    /\ created = IF urlAccepted THEN maxReconnectAttempts + 1 ELSE 0

C32_Counted ==
    /\ [](created <= maxReconnectAttempts + 1)
    /\ []((timers = <<>> /\ Unclosed(sockets) = 0) => C32_Quiescent)
    /\ [][ /\ SocketCreated <=> created' = created + 1
           /\ created' # created => created' = created + 1
           /\ C32_Quiescent => C32_Quiescent' ]_vars

C32_ReconnectLoopTerminates ==
    /\ <>[]C32_Quiescent
    /\ C32_Counted

(***************************************************************************)
(* C32, amended.  With a backend that never accepts and no shutdown, if    *)
(* every connection attempt fails rather than staying unanswered, the      *)
(* reconnect loop ends quiescent after 11 sockets; in any case it ends     *)
(* either so or with one socket connecting for ever, and never more than   *)
(* 11 sockets are constructed.                                             *)
(***************************************************************************)
C32_ReconnectLoopTerminatesIfAttemptsFail ==
    /\ []<>NoAttemptPending => <>[]C32_Quiescent
    /\ <>[](C32_Quiescent \/ (Cardinality(LiveSockets) = 1 /\ timers = <<>>))
    /\ C32_Counted

C32_Witness ==
    /\ created = 11
    /\ failures = 11
    /\ retried
    /\ urlAccepted
    /\ timers = <<>>
    /\ Unclosed(sockets) = 0
    /\ ~isShuttingDown
    /\ running

(***************************************************************************)
(* C33.  When new WebSocket throws, the attempt is a failed attempt: the   *)
(* counter grows by one and, as for any failed attempt within the limit,   *)
(* one timer of min(5000 * attempt, 30000) ms is scheduled (none once the  *)
(* counter exceeds the limit); the stored socket and the sockets are left  *)
(* as they were, and as no socket exists for the failed creation, no close *)
(* event adds a second timer.                                              *)
(***************************************************************************)
C33_Thrown(m) ==
    LET after == connectToMonitor(m, FALSE)
        attempt == m.reconnectAttempts + 1
        delay == IF 5000 * attempt < 30000 THEN 5000 * attempt ELSE 30000
    IN  /\ after.reconnectAttempts = attempt
        /\ after.timers = IF attempt <= 10 THEN Append(m.timers, delay) ELSE m.timers
        /\ after.monitorWs = m.monitorWs
        /\ after.sockets = m.sockets
        /\ after.isShuttingDown = m.isShuttingDown

C33_ConstructorThrowIsFailedAttempt ==
    /\ [](~isShuttingDown => C33_Thrown(Fields))
    /\ [](~urlAccepted =>
            /\ sockets = <<>>
            /\ monitorWs = 0
            /\ reconnectAttempts = failures
            /\ Len(scheduledDelays) = IF failures <= 10 THEN failures ELSE 10
            /\ Len(timers) = IF failures <= 10 /\ ~isShuttingDown THEN 1 ELSE Len(timers)
            /\ Len(timers) <= 1)
    /\ [][ (~urlAccepted /\ failures' = failures + 1) =>
             /\ reconnectAttempts' = reconnectAttempts + 1
             /\ monitorWs' = monitorWs
             /\ sockets' = sockets
             /\ timers' = IF reconnectAttempts' <= 10
                          THEN << IF 5000 * reconnectAttempts' < 30000
                                  THEN 5000 * reconnectAttempts' ELSE 30000 >>
                          ELSE <<>> ]_vars

C33_Witness ==
    /\ ~urlAccepted
    /\ failures = 3
    /\ reconnectAttempts = 3
    /\ timers = <<15000>>
    /\ scheduledDelays = <<5000, 10000, 15000>>
    /\ monitorWs = 0
    /\ sockets = <<>>
    /\ running

(***************************************************************************)
(* C34.  A tool call, over MCP or over POST /mcp, whether it succeeds or   *)
(* fails, leaves the connection state machine as it was: the stored        *)
(* socket, the attempt counter, the shutdown flag, the pending timers and  *)
(* the state of every socket; it creates no socket and schedules nothing.  *)
(***************************************************************************)
C34_CallLeavesConnectionState ==
    [][ (call'.via \in {"mcp", "http"} /\ call'.method = "tools/call") =>
          /\ monitorWs' = monitorWs
          /\ reconnectAttempts' = reconnectAttempts
          /\ isShuttingDown' = isShuttingDown
          /\ timers' = timers
          /\ scheduledDelays' = scheduledDelays
          /\ running' = running
          /\ DOMAIN sockets' = DOMAIN sockets
          /\ \A s \in DOMAIN sockets :
                /\ sockets'[s].readyState = sockets[s].readyState
                /\ sockets'[s].wasOpen = sockets[s].wasOpen ]_vars

C34_Witness ==
    /\ ValidCall(call)
    /\ NotConnectedFailure(call)
    /\ call.via = "mcp"
    /\ reconnectAttempts = 2
    /\ timers = <<10000>>
    /\ ~isShuttingDown
    /\ ~SocketIsOpen

(***************************************************************************)
(* C35.  A POST /mcp request of a method other than tools/list and         *)
(* tools/call is answered, with status 200, by the JSON-RPC error -32601   *)
(* "Method not found" naming the method and carrying the id of the         *)
(* request; nothing is validated, whatever params it carries, no frame is  *)
(* written and the connection state stays as it is.                        *)
(***************************************************************************)
\* requests of other methods: with each kind of id, with and without the params of a tool call
C35_OtherRequests ==
    { [method |-> m, id |-> i, name |-> n, args |-> a] :
          m \in {"resources/list", "initialize", "tools/calls"},
          i \in {Num(1), Num(0), Str("a"), Null, Undefined},
          n \in {"", "send_task_event"},
          a \in {Undefined, EmptyObj, Obj(TaskEventBase)} }

C35_MethodNotFound(req, h) ==
    /\ h.reply.kind = "error"
    /\ h.reply.status = 200
    /\ h.reply.code = -32601
    /\ h.reply.message = <<"Method not found", req.method>>
    /\ h.reply.id = req.id
    /\ h.reply.data = <<>>
    /\ h.error = NoError
    /\ h.socks = sockets

C35_UnknownMethod ==
    /\ [](\A req \in C35_OtherRequests : C35_MethodNotFound(req, PostMcpHandler(req)))
    /\ [][ (call'.via = "http" /\ call'.method \notin {"tools/list", "tools/call"}) =>
             /\ C35_MethodNotFound([method |-> call'.method, id |-> call'.reply.id],
                                   [reply |-> call'.reply, error |-> call'.error, socks |-> sockets'])
             /\ call'.reply.id \in RequestIds
             /\ NothingWritten
             /\ UNCHANGED <<monitorWs, sockets, reconnectAttempts, isShuttingDown, timers, running>> ]_vars

C35_Witness ==
    /\ call.via = "http"
    /\ call.method = "resources/list"
    /\ call.reply.kind = "error"
    /\ call.reply.code = -32601
    /\ call.reply.id = Num(1)
    /\ call.reply.message = <<"Method not found", "resources/list">>
    /\ SocketIsOpen

====
